---- MODULE Spec2Model ----
(***************************************************************************)
(* RestGPT: the plan / select / call / record loop of RestGPT._call        *)
(* (src/model/rest_gpt.py) and one execution step of Caller._call          *)
(* (src/model/caller.py).                                                  *)
(*                                                                         *)
(* Texts are sequences of tokens.  A token is a record                     *)
(*   [s : string, segs : sequence of path segments, q : query pairs]       *)
(* a word has segs = <<>>, a path "/a/b" has s = "" and segs = <<a, b>>,   *)
(* a URL has its base in s, its path in segs and its query string in q.    *)
(***************************************************************************)
EXTENDS Integers, Sequences, FiniteSets, TLC

(***************************************************************************)
(* Bounds of the model.                                                    *)
(***************************************************************************)
\* largest finite max_iterations a run is configured with
MaxIterations == 2
\* cap on loop iterations of a run whose max_iterations is None
MaxLoop == 2
\* largest reading of time.time() - start_time, in ticks
MaxClock == 1

\* Python's None for the Optional[int] / Optional[float] budget fields
None == -1

(***************************************************************************)
(* Tokens and texts.                                                       *)
(***************************************************************************)
W(s) == [s |-> s, segs |-> <<>>, q |-> <<>>]
Path(segs) == [s |-> "", segs |-> segs, q |-> <<>>]
Url(base, segs, q) == [s |-> base, segs |-> segs, q |-> q]

NL == W("\n")
SP == W(" ")
\* the backtick character of a code fence
TICK == W("backtick")
LB == W("{")
RB == W("}")

IsSpace(t) == t \in {NL, SP}

Min(a, b) == IF a < b THEN a ELSE b
Max(a, b) == IF a > b THEN a ELSE b

\* s[a:b] of Python for 0-based a, b, negative values counting from the end
PySlice(s, a, b) ==
    LET n == Len(s)
        lo == IF a < 0 THEN Max(n + a, 0) ELSE Min(a, n)
        hi == IF b < 0 THEN Max(n + b, 0) ELSE Min(b, n)
    IN  IF lo >= hi THEN <<>> ELSE SubSeq(s, lo + 1, hi)

\* s.find(t): 0-based index of the first t, -1 when absent
Find(s, t) ==
    IF \E i \in 1..Len(s) : s[i] = t
    THEN (CHOOSE i \in 1..Len(s) : s[i] = t /\ \A j \in 1..(i-1) : s[j] # t) - 1
    ELSE -1

\* s.rfind(t): 0-based index of the last t, -1 when absent
RFind(s, t) ==
    IF \E i \in 1..Len(s) : s[i] = t
    THEN (CHOOSE i \in 1..Len(s) : s[i] = t /\ \A j \in (i+1)..Len(s) : s[j] # t) - 1
    ELSE -1

RECURSIVE LStrip(_, _)
LStrip(s, drop) ==
    IF s # <<>> /\ Head(s) \in drop THEN LStrip(Tail(s), drop) ELSE s

RECURSIVE RStrip(_, _)
RStrip(s, drop) ==
    IF s # <<>> /\ s[Len(s)] \in drop
    THEN RStrip(SubSeq(s, 1, Len(s) - 1), drop) ELSE s

\* str.strip() of whitespace, and str.strip of backticks
Strip(s) == RStrip(LStrip(s, {NL, SP}), {NL, SP})
StripTicks(s) == RStrip(LStrip(s, {TICK}), {TICK})

\* re.search(phrase, text) for a literal phrase
Contains(text, phrase) ==
    \E i \in 1..(Len(text) - Len(phrase) + 1) :
        SubSeq(text, i, i + Len(phrase) - 1) = phrase

(***************************************************************************)
(* The Spec Index: api_spec.servers[0]["url"] and api_spec.endpoints, a    *)
(* list of (name, summary, docs).  An endpoint name "METHOD /path" is the  *)
(* two-token text <<W(METHOD), Path(segments)>>.  A documentation object   *)
(* records whether it has a "responses" entry and the property names of    *)
(* responses.content["application/json"].schema.properties; a property     *)
(* name is the sequence of its pieces, so that t + "s" is Append(t, "s").  *)
(***************************************************************************)
ApiUrl == "https://api.example/v1"
OtherUrl == "https://other.example"

Methods == {"GET", "POST", "PUT", "PATCH", "DELETE"}

EpSearch == <<W("GET"), Path(<<"search">>)>>
EpArtist == <<W("GET"), Path(<<"artists", "{id}">>)>>
EpTop == <<W("GET"), Path(<<"artists", "top">>)>>
EpVolume == <<W("PUT"), Path(<<"me", "volume">>)>>

\* The rest of a documentation object (summary, parameters) is kept as the
\* tokens yaml.dump writes for it.
Doc(hasResponses, props) ==
    [responses |-> hasResponses, properties |-> props,
     yaml |-> <<W("summary")>>]

Endpoints ==
    << <<EpSearch, Doc(TRUE, {<<"track", "s">>, <<"album", "s">>})>>,
       <<EpArtist, Doc(TRUE, {<<"name">>})>>,
       <<EpTop, Doc(TRUE, {<<"items">>})>>,
       <<EpVolume, Doc(FALSE, {})>> >>

EndpointNames == {Endpoints[i][1] : i \in 1..Len(Endpoints)}

\* the documentation objects as loaded, keyed by endpoint name
InitialDocs ==
    [n \in EndpointNames |->
        LET i == CHOOSE k \in 1..Len(Endpoints) : Endpoints[k][1] = n
        IN  Endpoints[i][2]]

(***************************************************************************)
(* Endpoint Matcher, get_matched_endpoint(api_spec, text) of utils.        *)
(* The result is a sequence of endpoint names, most specific last, or      *)
(* NoMatch (Python's None).                                                *)
(***************************************************************************)
NoMatch == <<W("None")>>

IsPlaceholder(seg) == seg \in {"{id}"}

\* the method token and the path-like fragment of a free text
MethodOf(text) ==
    IF \E i \in 1..Len(text) : text[i].segs = <<>> /\ text[i].s \in Methods
    THEN text[CHOOSE i \in 1..Len(text) :
                /\ text[i].segs = <<>> /\ text[i].s \in Methods
                /\ \A j \in 1..(i-1) : ~(text[j].segs = <<>> /\ text[j].s \in Methods)].s
    ELSE ""

FragmentOf(text) ==
    IF \E i \in 1..Len(text) : text[i].segs # <<>>
    THEN LET t == text[CHOOSE i \in 1..Len(text) :
                        /\ text[i].segs # <<>>
                        /\ \A j \in 1..(i-1) : text[j].segs = <<>>]
         IN  IF t.s = "" THEN t.segs ELSE <<t.s>> \o t.segs
    ELSE <<>>

SegmentsMatch(template, frag) ==
    /\ Len(template) = Len(frag)
    /\ \A i \in 1..Len(template) :
          IsPlaceholder(template[i]) \/ template[i] = frag[i]

ExactCount(template, frag) ==
    Cardinality({i \in 1..Min(Len(template), Len(frag)) :
                    ~IsPlaceholder(template[i]) /\ template[i] = frag[i]})

IsCandidate(name, method, frag) ==
    /\ name[1].s = method
    /\ SegmentsMatch(name[2].segs, frag)
    /\ ExactCount(name[2].segs, frag) >= 1

\* the candidates among Endpoints[1..k], fewest exact segments first
RECURSIVE Ranked(_, _, _)
Ranked(k, method, frag) ==
    IF k = 0 THEN <<>>
    ELSE LET rest == Ranked(k - 1, method, frag)
             name == Endpoints[k][1]
             c == ExactCount(name[2].segs, frag)
             before == SelectSeq(rest,
                          LAMBDA n : ExactCount(n[2].segs, frag) <= c)
             after == SelectSeq(rest,
                          LAMBDA n : ExactCount(n[2].segs, frag) > c)
         IN  IF IsCandidate(name, method, frag)
             THEN before \o <<name>> \o after
             ELSE rest

get_matched_endpoint(text) ==
    LET r == Ranked(Len(Endpoints), MethodOf(text), FragmentOf(text))
    IN  IF r = <<>> THEN NoMatch ELSE r

(***************************************************************************)
(* json.loads on a token text.  An object is LB (key value)* RB, a value   *)
(* is an atom or an object of atoms; separators are not modelled.  The     *)
(* result maps each key to [obj, atom, members].                           *)
(***************************************************************************)
Atom(t) == [obj |-> FALSE, atom |-> t, members |-> <<>>]
Obj(m) == [obj |-> TRUE, atom |-> W(""), members |-> m]

IsKeyTok(t) == t.segs = <<>> /\ t \notin {LB, RB, TICK, NL, SP}
IsAtomTok(t) == t \notin {LB, RB, TICK, NL, SP}

\* (key atom)* as a mapping, the last duplicate winning
RECURSIVE FlatMembers(_)
FlatMembers(toks) ==
    IF toks = <<>> THEN [ok |-> TRUE, data |-> <<>>]
    ELSE IF Len(toks) < 2 \/ ~IsKeyTok(toks[1]) \/ ~IsAtomTok(toks[2])
    THEN [ok |-> FALSE, data |-> <<>>]
    ELSE LET rest == FlatMembers(SubSeq(toks, 3, Len(toks)))
         IN  [ok |-> rest.ok,
              data |-> rest.data @@ (toks[1].s :> toks[2])]

RECURSIVE Members(_)
Members(toks) ==
    IF toks = <<>> THEN [ok |-> TRUE, data |-> <<>>]
    ELSE IF Len(toks) < 2 \/ ~IsKeyTok(toks[1])
    THEN [ok |-> FALSE, data |-> <<>>]
    ELSE IF toks[2] = LB
    THEN LET close == Find(SubSeq(toks, 3, Len(toks)), RB)
         IN  IF close < 0 THEN [ok |-> FALSE, data |-> <<>>]
             ELSE LET inner == FlatMembers(SubSeq(toks, 3, 2 + close))
                      rest == Members(SubSeq(toks, 4 + close, Len(toks)))
                  IN  [ok |-> inner.ok /\ rest.ok,
                       data |-> rest.data @@ (toks[1].s :> Obj(inner.data))]
    ELSE IF ~IsAtomTok(toks[2])
    THEN [ok |-> FALSE, data |-> <<>>]
    ELSE LET rest == Members(SubSeq(toks, 3, Len(toks)))
         IN  [ok |-> rest.ok,
              data |-> rest.data @@ (toks[1].s :> Atom(toks[2]))]

json_loads(text) ==
    LET t == SelectSeq(text, LAMBDA x : ~IsSpace(x))
    IN  IF Len(t) >= 2 /\ t[1] = LB /\ t[Len(t)] = RB
        THEN Members(SubSeq(t, 2, Len(t) - 1))
        ELSE [ok |-> FALSE, data |-> <<>>]

\* dict.get(key) with None for a missing key
NoneVal == Atom(W("None"))
Get(data, key) == IF key \in DOMAIN data THEN data[key] ELSE NoneVal

(***************************************************************************)
(* Caller._get_action_and_input: the Action Parser.                        *)
(***************************************************************************)
MARKER == W("Execution Result:")
OPERATION == W("Operation:")
INPUT == W("Input:")

Raise(exc) == [raised |-> TRUE, exc |-> exc, action |-> "", action_input |-> <<>>]

\* text.split(sep)[1]: what follows the first separator
AfterLast_first(text, sep) == PySlice(text, Find(text, sep) + 1, Len(text))

\* text.split(sep)[-1] for a one-token separator
AfterLast(text, sep) == PySlice(text, RFind(text, sep) + 1, Len(text))

\* lines 214-216 cutting at the first "}" in place of the last
BraceSlice_first(action_input) ==
    PySlice(action_input, Find(action_input, LB), Find(action_input, RB) + 1)

\* lines 214-216: find("{"), rfind("}") and the slice between them
BraceSlice(action_input) ==
    LET left_bracket == Find(action_input, LB)
        right_bracket == RFind(action_input, RB)
    IN  PySlice(action_input, left_bracket, right_bracket + 1)

_get_action_and_input(llm_output) ==
    IF Find(llm_output, MARKER) >= 0
    THEN [raised |-> FALSE, exc |-> "", action |-> "DONE",
          action_input |-> Strip(AfterLast(llm_output, MARKER))]
    ELSE
    LET op == Find(llm_output, OPERATION)
        afterOp == PySlice(llm_output, op + 1, Len(llm_output))
        inp == Find(afterOp, INPUT)
    IN  IF op < 0 \/ inp < 0
        THEN Raise("ValueError: Could not parse LLM output")
        ELSE
        LET group1 == PySlice(afterOp, 0, inp)
            group2 == PySlice(afterOp, inp + 1, Len(afterOp))
            actionText == Strip(group1)
            action == IF Len(actionText) = 1 /\ actionText[1].segs = <<>>
                      THEN actionText[1].s ELSE "?"
            stripped == StripTicks(Strip(group2))
        IN  IF action \notin {"GET", "POST", "DELETE", "PUT"}
            THEN Raise("NotImplementedError")
            ELSE [raised |-> FALSE, exc |-> "", action |-> action,
                  action_input |-> BraceSlice(stripped)]

(***************************************************************************)
(* Caller._get_response.  resp is what the requests wrapper returns:       *)
(* [isResponse, status_code, text], text a sequence of characters.         *)
(* The result is either the bare text (tuple = FALSE) or the 5-tuple       *)
(* (response_text, params, request_body, desc, query).                     *)
(***************************************************************************)
\* a url requests can send to: a scheme and host, then a path
IsHttpUrl(t) == t.s # "" /\ t.segs # <<>>

RaiseResp(exc) ==
    [raised |-> TRUE, exc |-> exc, http |-> 0, tuple |-> FALSE,
     text |-> <<>>, params |-> NoneVal, request_body |-> NoneVal,
     desc |-> NoneVal, query |-> NoneVal]

_get_response(action, action_input, resp) ==
    LET parsed == json_loads(action_input)
        data == parsed.data
        desc == IF "description" \in DOMAIN data THEN data["description"]
                ELSE Atom(W("No description"))
        query == Get(data, "output_instructions")
        params == IF action = "GET" /\ "params" \notin DOMAIN data
                  THEN NoneVal ELSE Get(data, "params")
        request_body == IF action = "GET" THEN NoneVal ELSE Get(data, "data")
    IN  IF ~parsed.ok
        THEN RaiseResp("ValueError: Could not parse action input")
        ELSE IF "url" \notin DOMAIN data
        THEN RaiseResp(IF action = "GET" THEN "MissingSchema" ELSE "KeyError: url")
        ELSE IF data["url"].obj
        THEN RaiseResp("InvalidSchema")
        ELSE IF ~IsHttpUrl(data["url"].atom)
        THEN RaiseResp("MissingSchema")
        ELSE IF resp.isResponse /\ resp.status_code # 200
        THEN [raised |-> FALSE, exc |-> "", http |-> 1, tuple |-> FALSE,
              text |-> resp.text, params |-> NoneVal,
              request_body |-> NoneVal, desc |-> NoneVal, query |-> NoneVal]
        ELSE [raised |-> FALSE, exc |-> "", http |-> 1, tuple |-> TRUE,
              text |-> resp.text, params |-> params,
              request_body |-> request_body, desc |-> desc, query |-> query]

(***************************************************************************)
(* Caller._prepare_api_docs: (api_doc_for_caller, api_url), both empty     *)
(* when the matcher finds nothing for the plan step.  with_response is     *)
(* False for every Caller the loop builds, so "responses" is popped from   *)
(* the copy.                                                               *)
(***************************************************************************)
EmptyExcerpt == [name |-> <<>>, doc |-> Doc(FALSE, {}), text |-> <<>>]

\* the token budget of encoded_docs[:1500]
TokenBudget == 1500

\* lines 301-303 keeping the last tokens in place of the first
Truncate_tail(encoded_docs) ==
    IF Len(encoded_docs) > TokenBudget
    THEN SubSeq(encoded_docs, Len(encoded_docs) - TokenBudget + 1,
                Len(encoded_docs))
    ELSE encoded_docs

\* lines 299-303: encode, cut to the budget, decode
Truncate(encoded_docs) ==
    IF Len(encoded_docs) > TokenBudget
    THEN PySlice(encoded_docs, 0, TokenBudget)
    ELSE encoded_docs

\* line 305: f"== Docs for {endpoint_name} == \n"
DocsHeader(endpoint_name) ==
    <<W("=="), W("Docs"), W("for")>> \o endpoint_name \o <<W("=="), SP, NL>>

_prepare_api_docs(api_plan, docs) ==
    LET matched_endpoints == get_matched_endpoint(api_plan)
        endpoint_name == matched_endpoints[Len(matched_endpoints)]
        tmp_docs == docs[endpoint_name]
    IN  IF matched_endpoints = NoMatch
        THEN [api_doc_for_caller |-> EmptyExcerpt, api_url |-> ""]
        ELSE [api_doc_for_caller |->
                  [name |-> endpoint_name,
                   doc |-> [tmp_docs EXCEPT !.responses = FALSE,
                                            !.properties = {}],
                   text |-> DocsHeader(endpoint_name)
                               \o Truncate(tmp_docs.yaml) \o <<NL>>],
              api_url |-> ApiUrl]

(***************************************************************************)
(* Caller._call: one execution step.  The completion, the wrapper's        *)
(* response and the interpreter's answer are the step's inputs.  The       *)
(* outcome carries the exception (if one propagates), the result text,     *)
(* the documentation objects as the step leaves them, the number of HTTP   *)
(* requests issued, and what was given to the prompt and the interpreter.  *)
(***************************************************************************)
\* the character budget of response[:7500]
ResponseBudget == 7500

NoParserInput == [called |-> FALSE, api_doc |-> Doc(FALSE, {}),
                  api_path |-> <<>>, json |-> <<>>]

CallerRaise(exc, http, prep, docs) ==
    [raised |-> TRUE, exc |-> exc, result |-> <<>>, docs |-> docs,
     http |-> http, prompt |-> prep, parser_input |-> NoParserInput]

\* the search_type of the scenario-specific narrowing, <<>> when the
\* local variable is never bound
SearchType(params, url) ==
    IF params # NoneVal /\ params.obj /\ "type" \in DOMAIN params.members
    THEN <<params.members["type"].s, "s">>
    ELSE IF \E i \in 1..Len(url.q) : url.q[i][1] = "type"
    THEN LET i == CHOOSE k \in 1..Len(url.q) :
                      /\ url.q[k][1] = "type"
                      /\ \A j \in 1..(k-1) : url.q[j][1] # "type"
         IN  <<url.q[i][2], "s">>
    ELSE <<>>

\* line 348: action + " " + url.replace(api_url, "")
CalledText(action, url, api_url) ==
    <<W(action), [url EXCEPT !.s = IF @ = api_url THEN "" ELSE @]>>

\* lines 347-402, after the response has been unpacked
CallerInterpret(api_plan, docs, scenario, prep, out, action, url, response, params, parsing_res) ==
    LET api_url == prep.api_url
        called_matches == get_matched_endpoint(CalledText(action, url, api_url))
        called_endpoint_name == called_matches[1]
        api_doc_for_parser == docs[called_endpoint_name]
        matched_endpoints == get_matched_endpoint(api_plan)
        endpoint_name == matched_endpoints[1]
        search_type == SearchType(params, url)
        narrowed == [api_doc_for_parser EXCEPT !.properties = {search_type}]
        finish(d, doc) ==
            [raised |-> FALSE, exc |-> "",
             result |-> out \o <<NL, W("Observation:")>>
                            \o parsing_res,
             docs |-> d, http |-> 1, prompt |-> prep,
             parser_input |->
                 [called |-> TRUE, api_doc |-> doc,
                  api_path |-> <<W(api_url), called_endpoint_name[2]>>,
                  json |-> response]]
    IN  IF called_matches = NoMatch \/ matched_endpoints = NoMatch
        THEN CallerRaise("TypeError: 'NoneType' object is not subscriptable",
                         1, prep, docs)
        ELSE IF scenario = "spotify" /\ endpoint_name = EpSearch
        THEN IF params # NoneVal /\ ~params.obj /\ params.atom.s = "type"
             THEN CallerRaise("TypeError: string indices must be integers",
                              1, prep, docs)
             ELSE IF search_type = <<>>
             THEN CallerRaise("UnboundLocalError: search_type", 1, prep, docs)
             ELSE IF ~api_doc_for_parser.responses
                     \/ search_type \notin api_doc_for_parser.properties
             THEN CallerRaise("KeyError", 1, prep, docs)
             ELSE finish([docs EXCEPT ![called_endpoint_name] = narrowed],
                         narrowed)
        ELSE finish(docs, api_doc_for_parser)

\* lines 342-402: the response is unpacked into five names, truncated and
\* interpreted; r is what _get_response returned
CallerResponded(api_plan, docs, scenario, prep, out, action, action_input, r, parsing_res) ==
    IF r.raised THEN CallerRaise(r.exc, r.http, prep, docs)
    ELSE IF ~r.tuple /\ Len(r.text) # 5
    THEN CallerRaise("ValueError: values to unpack (expected 5)",
                     1, prep, docs)
    ELSE CallerInterpret(api_plan, docs, scenario, prep, out, action,
                         json_loads(action_input).data["url"].atom,
                         PySlice(IF r.tuple THEN r.text ELSE <<r.text[1]>>,
                                 0, ResponseBudget),
                         IF r.tuple THEN r.params ELSE Atom(r.text[2]),
                         parsing_res)

\* lines 336-344: parsed is what _get_action_and_input returned
CallerParsed(api_plan, docs, scenario, prep, out, parsed, resp, parsing_res) ==
    IF parsed.raised THEN CallerRaise(parsed.exc, 0, prep, docs)
    ELSE IF parsed.action = "DONE"
    THEN [raised |-> FALSE, exc |-> "", result |-> parsed.action_input,
          docs |-> docs, http |-> 0, prompt |-> prep,
          parser_input |-> NoParserInput]
    ELSE CallerResponded(api_plan, docs, scenario, prep, out, parsed.action,
                         parsed.action_input,
                         _get_response(parsed.action, parsed.action_input,
                                       resp),
                         parsing_res)

Caller_call(api_plan, docs, scenario, out, resp, parsing_res) ==
    CallerParsed(api_plan, docs, scenario, _prepare_api_docs(api_plan, docs),
                 out, _get_action_and_input(out), resp, parsing_res)

(***************************************************************************)
(* What the collaborators can answer: the planner and selector outputs,    *)
(* the Caller's completions, the wrapper's responses and the               *)
(* interpreter's answers.                                                  *)
(***************************************************************************)
PlanSearch == <<W("search"), W("tracks")>>
PlanFinal == <<W("The"), W("Final"), W("Answer"), W("done")>>
Plans == {PlanSearch, PlanFinal}

ApiSearch == <<W("GET"), Path(<<"search">>), W("tracks")>>
ApiArtist == <<W("GET"), Path(<<"artists", "7">>)>>
ApiVague == <<W("find"), W("it")>>
ApiRefusal == <<W("No"), W("API"), W("call"), W("needed"), W("."),
                SP, W("Paris"), NL, W("more")>>
ApiPlans == {ApiSearch, ApiArtist, ApiVague, ApiRefusal}

OpInput(method, payload) ==
    <<W("Thought"), NL, OPERATION, SP, W(method), NL, INPUT, SP>> \o payload

UrlSearch == Url(ApiUrl, <<"search">>, <<>>)
UrlSearchAlbum == Url(ApiUrl, <<"search">>, << <<"q", "x">>, <<"type", "album">> >>)
UrlArtist == Url(ApiUrl, <<"artists", "top">>, <<>>)
UrlOther == Url(OtherUrl, <<"x">>, <<>>)

OutDone == <<W("Thought"), MARKER, SP, W("ok"), NL>>
OutNoise == <<W("Thought")>>
OutPatch == OpInput("PATCH", <<LB, W("url"), UrlArtist, RB>>)
OutBadJson == OpInput("GET", <<TICK, LB, W("url"), RB, TICK>>)
OutSearchTrack ==
    OpInput("GET", <<TICK, LB, W("url"), UrlSearch,
                     W("params"), LB, W("type"), W("track"), RB, RB, TICK>>)
OutSearchAlbum == OpInput("GET", <<LB, W("url"), UrlSearchAlbum, RB>>)
OutSearchPlain == OpInput("GET", <<LB, W("url"), UrlSearch, RB>>)
OutArtist == OpInput("GET", <<LB, W("url"), UrlArtist, RB, W("trailing")>>)
OutOther == OpInput("GET", <<LB, W("url"), UrlOther, RB>>)
OutNoUrl == OpInput("GET", <<LB, W("description"), W("x"), RB>>)

CallerOutputs ==
    {OutDone, OutNoise, OutPatch, OutBadJson, OutSearchTrack, OutSearchAlbum,
     OutSearchPlain, OutArtist, OutOther, OutNoUrl}

\* Every shape of completion the parser tells apart: an optional thought,
\* an optional Operation line, an optional Input block (commentary or a
\* code fence around the payload), an optional "Execution Result:" tail.
Verbs == {"GET", "POST", "PUT", "DELETE", "PATCH", "HEAD"}
Thoughts == {<<>>, <<W("Thought"), NL>>}
OperationLines == {<<>>} \cup {<<OPERATION, SP, W(v), NL>> : v \in Verbs}
PayloadLeads == {<<>>, <<TICK>>, <<W("Here"), SP>>}
PayloadCores ==
    {<<LB, W("url"), UrlArtist, RB>>,
     <<LB, W("url"), UrlSearch, W("params"), LB, W("q"), W("x"), RB, RB>>,
     <<LB, W("description"), W("x"), RB>>,
     <<LB, W("url"), UrlArtist>>,
     <<RB, W("url"), LB>>,
     <<W("none")>>}
PayloadTrails == {<<>>, <<TICK>>, <<NL, W("note")>>, <<NL, W("note"), RB>>}
InputBlocks ==
    {<<>>} \cup {<<INPUT, SP>> \o l \o c \o t :
                    l \in PayloadLeads, c \in PayloadCores, t \in PayloadTrails}
ResultTails ==
    {<<>>, <<NL, MARKER, SP, W("ok"), NL>>, <<NL, MARKER>>,
     <<NL, MARKER, SP, W("a"), MARKER, SP, W("b")>>}
Completions ==
    {th \o op \o inp \o tail :
        th \in Thoughts, op \in OperationLines, inp \in InputBlocks,
        tail \in ResultTails}

Chars(seq) == [i \in 1..Len(seq) |-> W(seq[i])]

RespStr == [isResponse |-> FALSE, status_code |-> 200, text |-> Chars(<<"o", "k">>)]
RespOk == [isResponse |-> TRUE, status_code |-> 200, text |-> Chars(<<"o", "k">>)]
RespErr == [isResponse |-> TRUE, status_code |-> 404, text |-> Chars(<<"E", "r", "r">>)]
RespErr5 ==
    [isResponse |-> TRUE, status_code |-> 500,
     text |-> Chars(<<"e", "r", "r", "o", "r">>)]
Responses == {RespStr, RespOk, RespErr, RespErr5}

ParsingResults == {<<W("found")>>}

(***************************************************************************)
(* RestGPT._call: the Orchestrator loop.                                   *)
(***************************************************************************)
VARIABLES
    pc,                      \* the statement of _call the run is at
    scenario,                \* self.scenario
    max_iterations,          \* self.max_iterations, None or a number
    max_execution_time,      \* self.max_execution_time, None or a number
    iterations,
    time_elapsed,            \* time.time() - start_time as last sampled
    clock,                   \* time.time() - start_time as it is now; it
                             \* moves during the first planner call and
                             \* during each selector call, which is enough
                             \* to give line 249 every sequence of samples
    planner_history,         \* list of (plan, execution_res)
    plan,
    api_plan,
    execution_res,
    api_selector_background,
    endpoint_docs,           \* the documentation objects of the Spec Index
    planner_input,           \* the history given to the latest planner call
    caller_outcome,          \* the outcome of the latest Caller invocation
    caller_chain_output,     \* the completion of the latest Caller invocation
    http_response,           \* what the requests wrapper returned last
    tmp_planner_history,     \* [plan] of line 159: the first planning output
    planner_calls,
    selector_calls,
    caller_calls,
    http_calls,
    exc,                     \* the exception that left _call, "" if none
    result                   \* the value _call returned, <<>> before that

vars ==
    <<pc, scenario, max_iterations, max_execution_time, iterations,
      time_elapsed, clock, planner_history, plan, api_plan, execution_res,
      api_selector_background, endpoint_docs, planner_input, caller_outcome,
      caller_chain_output, http_response, tmp_planner_history, planner_calls,
      selector_calls, caller_calls, http_calls, exc, result>>

\* _should_continue with the iteration test off by one (<= for <)
_should_continue_inclusive(its, elapsed) ==
    LET has_remaining_iterations ==
            max_iterations = None \/ its <= max_iterations
        has_remaining_time ==
            max_execution_time = None \/ elapsed < max_execution_time
    IN  has_remaining_iterations /\ has_remaining_time

\* _should_continue with the two budgets joined by "or"
_should_continue_either(its, elapsed) ==
    LET has_remaining_iterations ==
            max_iterations = None \/ its < max_iterations
        has_remaining_time ==
            max_execution_time = None \/ elapsed < max_execution_time
    IN  has_remaining_iterations \/ has_remaining_time

_should_continue(its, elapsed) ==
    LET has_remaining_iterations ==
            max_iterations = None \/ its < max_iterations
        has_remaining_time ==
            max_execution_time = None \/ elapsed < max_execution_time
    IN  has_remaining_iterations /\ has_remaining_time

RECURSIVE JoinResults(_)
JoinResults(history) ==
    IF Len(history) = 1 THEN history[1][2]
    ELSE JoinResults(SubSeq(history, 1, Len(history) - 1))
            \o <<NL>> \o history[Len(history)][2]

_get_api_selector_background(history) ==
    IF Len(history) = 0 THEN <<W("No background")>>
    ELSE JoinResults(history)

\* _should_end with re.match for re.search: the phrase only at the start
_should_end_match(p) ==
    Len(p) >= 2 /\ SubSeq(p, 1, 2) = <<W("Final"), W("Answer")>>

_should_end(p) == Contains(p, <<W("Final"), W("Answer")>>)

\* re.match(r"No API call needed.(.*)", api_plan) and its group(1)
RefusalPrefix == <<W("No"), W("API"), W("call"), W("needed")>>

Finished(text) ==
    /\ Len(text) >= 5
    /\ SubSeq(text, 1, 4) = RefusalPrefix
    /\ text[5] # NL

FinishedGroup1(text) ==
    LET rest == SubSeq(text, 6, Len(text))
        nl == Find(rest, NL)
    IN  IF nl < 0 THEN rest ELSE PySlice(rest, 0, nl)

NoResponse == [isResponse |-> FALSE, status_code |-> 0, text |-> <<>>]

NoOutcome ==
    [raised |-> FALSE, exc |-> "", result |-> <<>>, docs |-> InitialDocs,
     http |-> 0,
     prompt |-> [api_doc_for_caller |-> EmptyExcerpt, api_url |-> ""],
     parser_input |-> NoParserInput]

Init ==
    /\ pc = "planner_first"
    /\ scenario \in {"tmdb", "spotify"}
    /\ max_iterations \in {None} \cup (0..MaxIterations)
    /\ max_execution_time \in {None, 1}
    /\ iterations = 0
    /\ time_elapsed = 0
    /\ clock = 0
    /\ planner_history = <<>>
    /\ plan = <<>>
    /\ api_plan = <<>>
    /\ execution_res = <<>>
    /\ api_selector_background = <<>>
    /\ endpoint_docs = InitialDocs
    /\ planner_input = <<>>
    /\ caller_outcome = NoOutcome
    /\ caller_chain_output = <<>>
    /\ http_response = NoResponse
    /\ tmp_planner_history = <<>>
    /\ planner_calls = 0
    /\ selector_calls = 0
    /\ caller_calls = 0
    /\ http_calls = 0
    /\ exc = ""
    /\ result = <<>>

\* lines 145-163: the first planner call and the background
PlannerFirst ==
    /\ pc = "planner_first"
    /\ \E p \in Plans : plan' = p
    /\ planner_input' = planner_history
    /\ planner_calls' = planner_calls + 1
    /\ api_selector_background' = _get_api_selector_background(planner_history)
    /\ tmp_planner_history' = <<plan'>>
    /\ pc' = "while"
    /\ \E now \in clock..MaxClock : clock' = now
    /\ UNCHANGED <<scenario, max_iterations, max_execution_time, iterations,
                   time_elapsed, planner_history, api_plan, execution_res,
                   endpoint_docs, caller_outcome, caller_chain_output,
                   http_response, selector_calls, caller_calls, http_calls,
                   exc, result>>

\* line 164 reading the clock afresh in place of the sampled time_elapsed
While_clock ==
    /\ pc = "while"
    /\ iterations < MaxLoop \/ ~_should_continue(iterations, clock)
    /\ pc' = IF _should_continue(iterations, clock)
             THEN "api_selector" ELSE "return"
    /\ UNCHANGED <<clock, scenario, max_iterations, max_execution_time,
                   iterations,
                   time_elapsed, planner_history, plan, api_plan,
                   execution_res, api_selector_background, endpoint_docs,
                   planner_input, caller_outcome, caller_chain_output,
                   http_response, tmp_planner_history, planner_calls,
                   selector_calls, caller_calls, http_calls, exc, result>>

\* line 164 testing the completion phrase as well: a plan that already
\* holds it never enters the loop
While_should_end ==
    /\ pc = "while"
    /\ iterations < MaxLoop \/ ~_should_continue(iterations, time_elapsed)
    /\ pc' = IF _should_continue(iterations, time_elapsed)
                 /\ ~_should_end(plan)
             THEN "api_selector" ELSE "return"
    /\ UNCHANGED <<clock, scenario, max_iterations, max_execution_time,
                   iterations, time_elapsed, planner_history, plan, api_plan,
                   execution_res, api_selector_background, endpoint_docs,
                   planner_input, caller_outcome, caller_chain_output,
                   http_response, tmp_planner_history, planner_calls,
                   selector_calls, caller_calls, http_calls, exc, result>>

\* line 164: the loop condition; a run without an iteration ceiling is
\* followed for MaxLoop iterations
While ==
    /\ pc = "while"
    /\ iterations < MaxLoop \/ ~_should_continue(iterations, time_elapsed)
    /\ pc' = IF _should_continue(iterations, time_elapsed)
             THEN "api_selector" ELSE "return"
    /\ UNCHANGED <<clock, scenario, max_iterations, max_execution_time,
                   iterations,
                   time_elapsed, planner_history, plan, api_plan,
                   execution_res, api_selector_background, endpoint_docs,
                   planner_input, caller_outcome, caller_chain_output,
                   http_response, tmp_planner_history, planner_calls,
                   selector_calls, caller_calls, http_calls, exc, result>>

\* lines 167-173 without the refusal test: the Caller runs on every plan
ApiSelector_always_call ==
    /\ pc = "api_selector"
    /\ \E a \in ApiPlans : api_plan' = a
    /\ pc' = "caller"
    /\ selector_calls' = selector_calls + 1
    /\ \E now \in clock..MaxClock : clock' = now
    /\ UNCHANGED <<scenario, max_iterations, max_execution_time, iterations,
                   time_elapsed, planner_history, plan, execution_res,
                   api_selector_background, endpoint_docs, planner_input,
                   caller_outcome, caller_chain_output, http_response,
                   tmp_planner_history, planner_calls, caller_calls,
                   http_calls, exc, result>>

\* lines 167-173 and 190-191: the selector call and the refusal test
ApiSelector ==
    /\ pc = "api_selector"
    /\ \E a \in ApiPlans :
          /\ api_plan' = a
          /\ IF Finished(a)
             THEN /\ execution_res' = FinishedGroup1(a)
                  /\ pc' = "log"
             ELSE /\ execution_res' = execution_res
                  /\ pc' = "caller"
    /\ selector_calls' = selector_calls + 1
    /\ \E now \in clock..MaxClock : clock' = now
    /\ UNCHANGED <<scenario, max_iterations, max_execution_time, iterations,
                   time_elapsed, planner_history, plan,
                   api_selector_background, endpoint_docs, planner_input,
                   caller_outcome, caller_chain_output, http_response,
                   tmp_planner_history, planner_calls, caller_calls,
                   http_calls, exc, result>>

\* lines 184-189 and 194: the Caller's outcome o reaches the loop; nothing
\* catches what the Caller raises
CallerReturns(o, out, resp) ==
    /\ caller_outcome' = o
    /\ caller_chain_output' = out
    /\ http_response' = IF o.http = 1 THEN resp ELSE http_response
    /\ endpoint_docs' = o.docs
    /\ http_calls' = http_calls + o.http
    /\ IF o.raised
       THEN /\ exc' = o.exc
            /\ pc' = "raised"
            /\ execution_res' = execution_res
       ELSE /\ exc' = exc
            /\ pc' = "log"
            /\ execution_res' = o.result

\* lines 176-189: build a Caller and invoke it; the chain's completion is
\* one of outs
CallerInvokeFrom(outs) ==
    /\ pc = "caller"
    /\ \E out \in outs, resp \in Responses,
          parsing_res \in ParsingResults :
          CallerReturns(Caller_call(api_plan, endpoint_docs, scenario, out,
                                    resp, parsing_res), out, resp)
    /\ caller_calls' = caller_calls + 1
    /\ UNCHANGED <<clock, scenario, max_iterations, max_execution_time,
                   iterations,
                   time_elapsed, planner_history, plan, api_plan,
                   api_selector_background, planner_input,
                   tmp_planner_history, planner_calls, selector_calls,
                   result>>

\* lines 194-195 recording the selector's api_plan in place of the plan
LogExecutionResult_api_plan ==
    /\ pc = "log"
    /\ planner_history' = Append(planner_history, <<api_plan, execution_res>>)
    /\ pc' = "planner"
    /\ UNCHANGED <<clock, scenario, max_iterations, max_execution_time,
                   iterations, time_elapsed, plan, api_plan, execution_res,
                   api_selector_background, endpoint_docs, planner_input,
                   caller_outcome, caller_chain_output, http_response,
                   tmp_planner_history, planner_calls, selector_calls,
                   caller_calls, http_calls, exc, result>>

\* lines 194-195 rebinding the history to the latest entry alone
LogExecutionResult_rebind ==
    /\ pc = "log"
    /\ planner_history' = <<<<plan, execution_res>>>>
    /\ pc' = "planner"
    /\ UNCHANGED <<clock, scenario, max_iterations, max_execution_time,
                   iterations, time_elapsed, plan, api_plan, execution_res,
                   api_selector_background, endpoint_docs, planner_input,
                   caller_outcome, caller_chain_output, http_response,
                   tmp_planner_history, planner_calls, selector_calls,
                   caller_calls, http_calls, exc, result>>

\* lines 194-195
LogExecutionResult ==
    /\ pc = "log"
    /\ planner_history' = Append(planner_history, <<plan, execution_res>>)
    /\ pc' = "planner"
    /\ UNCHANGED <<clock, scenario, max_iterations, max_execution_time,
                   iterations,
                   time_elapsed, plan, api_plan, execution_res,
                   api_selector_background, endpoint_docs, planner_input,
                   caller_outcome, caller_chain_output, http_response,
                   tmp_planner_history, planner_calls, selector_calls,
                   caller_calls, http_calls, exc, result>>

\* lines 198-201 followed by the refresh of lines 204-206, which the source
\* keeps commented out: the background recomputed from the history
PlannerNext_refresh ==
    /\ pc = "planner"
    /\ \E p \in Plans : plan' = p
    /\ planner_input' = planner_history
    /\ planner_calls' = planner_calls + 1
    /\ api_selector_background' = _get_api_selector_background(planner_history)
    /\ pc' = "should_end"
    /\ UNCHANGED <<clock, scenario, max_iterations, max_execution_time,
                   iterations, time_elapsed, planner_history, api_plan,
                   execution_res, endpoint_docs, caller_outcome,
                   caller_chain_output, http_response, tmp_planner_history,
                   selector_calls, caller_calls, http_calls, exc, result>>

\* lines 198-201
PlannerNext ==
    /\ pc = "planner"
    /\ \E p \in Plans : plan' = p
    /\ planner_input' = planner_history
    /\ planner_calls' = planner_calls + 1
    /\ pc' = "should_end"
    /\ UNCHANGED <<clock, scenario, max_iterations, max_execution_time,
                   iterations,
                   time_elapsed, planner_history, api_plan, execution_res,
                   api_selector_background, endpoint_docs, caller_outcome,
                   caller_chain_output, http_response, tmp_planner_history,
                   selector_calls, caller_calls, http_calls, exc, result>>

\* lines 245-249
ShouldEnd ==
    /\ pc = "should_end"
    /\ IF _should_end(plan)
       THEN /\ pc' = "return"
            /\ UNCHANGED <<iterations, time_elapsed, clock>>
       ELSE /\ pc' = "while"
            /\ iterations' = iterations + 1
            /\ time_elapsed' = clock
            /\ clock' = clock
    /\ UNCHANGED <<scenario, max_iterations, max_execution_time,
                   planner_history, plan, api_plan, execution_res,
                   api_selector_background, endpoint_docs, planner_input,
                   caller_outcome, caller_chain_output, http_response,
                   tmp_planner_history, planner_calls, selector_calls,
                   caller_calls, http_calls, exc, result>>

\* line 251
Return ==
    /\ pc = "return"
    /\ result' = plan
    /\ pc' = "done"
    /\ UNCHANGED <<clock, scenario, max_iterations, max_execution_time,
                   iterations,
                   time_elapsed, planner_history, plan, api_plan,
                   execution_res, api_selector_background, endpoint_docs,
                   planner_input, caller_outcome, caller_chain_output,
                   http_response, tmp_planner_history, planner_calls,
                   selector_calls, caller_calls, http_calls, exc>>

CallerInvoke == CallerInvokeFrom(CallerOutputs)

Next ==
    \/ PlannerFirst
    \/ While
    \/ ApiSelector
    \/ CallerInvoke
    \/ LogExecutionResult
    \/ PlannerNext
    \/ ShouldEnd
    \/ Return

Spec == Init /\ [][Next]_vars

(***************************************************************************)
(* One Caller step on its own: the loop has planned and selected once      *)
(* (lines 145-173) and the Caller's chain may complete with any text of    *)
(* Completions.                                                            *)
(***************************************************************************)
AfterSelection(docs) ==
    /\ pc = "caller"
    /\ scenario \in {"tmdb", "spotify"}
    /\ max_iterations = None
    /\ max_execution_time = None
    /\ iterations = 0
    /\ time_elapsed = 0
    /\ clock = 0
    /\ planner_history = <<>>
    /\ plan = PlanSearch
    /\ api_plan \in {a \in ApiPlans : ~Finished(a)}
    /\ execution_res = <<>>
    /\ api_selector_background = _get_api_selector_background(<<>>)
    /\ endpoint_docs \in docs
    /\ planner_input = <<>>
    /\ caller_outcome = NoOutcome
    /\ caller_chain_output = <<>>
    /\ http_response = NoResponse
    /\ tmp_planner_history = <<PlanSearch>>
    /\ planner_calls = 1
    /\ selector_calls = 1
    /\ caller_calls = 0
    /\ http_calls = 0
    /\ exc = ""
    /\ result = <<>>

CallerInit == AfterSelection({InitialDocs})

CallerInvokeAny == CallerInvokeFrom(Completions)

CallerNext == CallerInvokeAny

CallerSpec == CallerInit /\ [][CallerNext]_vars

(***************************************************************************)
(* The same step over documentation of every size around the token        *)
(* budget: the YAML of one endpoint is n distinct tokens.                  *)
(***************************************************************************)
SmallDoc == 20
NearBudget == 10
MaxDocTokens == 1502

DocSizes == (0..SmallDoc) \cup ((TokenBudget - NearBudget)..MaxDocTokens)

YamlOfSize(n) == [i \in 1..n |-> W(ToString(i))]

SizedDocs ==
    {[InitialDocs EXCEPT ![e].yaml = YamlOfSize(n)] :
        e \in {EpSearch, EpArtist}, n \in DocSizes}

DocsInit == AfterSelection(SizedDocs)

DocsNext == CallerInvoke

DocsSpec == DocsInit /\ [][DocsNext]_vars

(***************************************************************************)
(* Properties of the Orchestrator loop and of the Caller step.             *)
(***************************************************************************)
FinalAnswer == <<W("Final"), W("Answer")>>

\* the three failures of a step inside the Caller
CallerStepErrors ==
    {"ValueError: Could not parse LLM output", "NotImplementedError",
     "ValueError: Could not parse action input"}

\* the latest Caller invocation issued its request and got this response
GotResponse == caller_calls > 0 /\ caller_outcome.http = 1
Non200 == http_response.isResponse /\ http_response.status_code # 200

\* the text the latest action's URL is resolved from (line 348)
CalledOfLatest ==
    LET parsed == _get_action_and_input(caller_chain_output)
    IN  CalledText(parsed.action,
                   json_loads(parsed.action_input).data["url"].atom,
                   caller_outcome.prompt.api_url)

\* C1: a step that fails inside the Caller (unparseable completion,
\* unsupported operation, invalid JSON payload) aborts only that step:
\* _call does not raise and the run goes on to record the error text.
C1_StepFailureIsRecorded ==
    (caller_calls > 0 /\ caller_outcome.raised
        /\ caller_outcome.exc \in CallerStepErrors)
    => (pc # "raised" /\ exc = "")

\* C2: for every HTTP response whose status is not 200 the Caller does not
\* raise; the truncated raw text goes to the interpreter and a result text
\* is returned.
C2_Non200IsInterpreted ==
    (GotResponse /\ Non200)
    => /\ ~caller_outcome.raised
       /\ caller_outcome.parser_input.called
       /\ caller_outcome.parser_input.json
              = PySlice(http_response.text, 0, ResponseBudget)

\* C3: when the matcher reports no-match for the plan step, the step runs
\* with an empty excerpt and an empty base URL and completes without
\* raising for every action, not only the done signal.
C3_NoMatchStepCompletes ==
    (GotResponse /\ ~Non200 /\ get_matched_endpoint(api_plan) = NoMatch)
    => /\ caller_outcome.prompt.api_doc_for_caller = EmptyExcerpt
       /\ caller_outcome.prompt.api_url = ""
       /\ ~caller_outcome.raised
       /\ pc # "raised"

\* C4: when the URL of the executed action resolves to no endpoint of the
\* Spec Index, the step is a local error: the run is not aborted, a result
\* is recorded and the planner is called again.
C4_UnresolvedUrlIsLocal ==
    (GotResponse /\ ~Non200 /\ get_matched_endpoint(api_plan) # NoMatch
        /\ get_matched_endpoint(CalledOfLatest) = NoMatch)
    => (~caller_outcome.raised /\ pc # "raised")

\* C5: after any sequence of Caller invocations every endpoint's
\* documentation equals its value at construction.
C5_DocsNeverMutated == endpoint_docs = InitialDocs

\* C6: with max_iterations = 0 the planner is invoked exactly once, the
\* Selector and the Caller never, and the first planning output is
\* returned unchanged.
C6_ZeroIterations ==
    max_iterations = 0
    => /\ selector_calls = 0
       /\ caller_calls = 0
       /\ planner_calls <= 1
       /\ pc \in {"planner_first", "while", "return", "done"}
       /\ pc = "done" => (planner_calls = 1 /\ result = tmp_planner_history[1])

C6_Witness == max_iterations = 0 /\ pc = "done" /\ result = PlanSearch

\* C7: every planner invocation after the first receives a history whose
\* last entry is (plan of the iteration just executed, its result), the
\* result being the Caller's or the refusal's.
C7_PlannerSeesLatestResult ==
    [][/\ (planner_calls' = planner_calls + 1 /\ planner_calls >= 1)
            => /\ planner_input' # <<>>
               /\ planner_input'[Len(planner_input')] = <<plan, execution_res>>
       /\ (pc' = "log")
            => execution_res' = IF Finished(api_plan')
                                THEN FinishedGroup1(api_plan')
                                ELSE caller_outcome'.result]_vars

C7_Witness ==
    /\ planner_calls >= 3
    /\ pc = "should_end"
    /\ Finished(api_plan)
    /\ planner_history[1][2] # planner_history[2][2]

\* C8: the planner history is append-only: every step leaves it unchanged
\* or extends it by exactly one entry at the end.
C8_HistoryAppendOnly ==
    [][\/ planner_history' = planner_history
       \/ /\ Len(planner_history') = Len(planner_history) + 1
          /\ SubSeq(planner_history', 1, Len(planner_history))
                = planner_history]_vars

C8_Witness ==
    /\ Len(planner_history) >= 2
    /\ planner_history[1] # planner_history[2]

\* C9: when a plan produced inside the loop contains "Final Answer" the run
\* stops and returns that plan with no further Selector or Caller
\* invocation, the preceding iteration's result being in the history.
C9_FinalAnswerStops ==
    [][/\ (pc = "should_end" /\ Contains(plan, FinalAnswer))
            => /\ pc' = "return"
               /\ plan' = plan
               /\ planner_history # <<>>
               /\ planner_history[Len(planner_history)][2] = execution_res
       /\ (pc = "return") => (pc' = "done" /\ result' = plan)
       /\ (pc \in {"return", "done"})
            => /\ selector_calls' = selector_calls
               /\ caller_calls' = caller_calls
               /\ planner_calls' = planner_calls]_vars

C9_Witness ==
    /\ pc = "done"
    /\ Contains(result, FinalAnswer)
    /\ Len(planner_history) = iterations + 1
    /\ iterations >= 1

\* C10: when the loop stops on the iteration ceiling or the wall-clock
\* ceiling the run ends normally: it returns the latest planner output and
\* does not raise.
BudgetReached ==
    \/ (max_iterations # None /\ iterations >= max_iterations)
    \/ (max_execution_time # None /\ time_elapsed >= max_execution_time)

C10_BudgetStopReturns ==
    [][/\ (pc = "while" /\ BudgetReached) => (pc' = "return" /\ exc' = "")
       /\ (pc = "return")
            => (pc' = "done" /\ result' = plan /\ exc' = "")]_vars

C10_Witness ==
    /\ pc = "done"
    /\ ~Contains(result, FinalAnswer)
    /\ max_execution_time # None /\ time_elapsed >= max_execution_time
    /\ max_iterations # None /\ iterations < max_iterations

\* the refusal's text after the literal "No API call needed."
AfterRefusalPrefix(text) == SubSeq(text, 6, Len(text))

\* C11: when the Selector's output begins with "No API call needed." the
\* iteration invokes no Caller and issues no HTTP request, and the result
\* recorded in the history is the refusal's text verbatim (the whole
\* output, or all of it after the prefix); every other iteration invokes
\* the Caller exactly once.
C11_RefusalIsVerbatim ==
    [][/\ (pc = "api_selector" /\ Finished(api_plan'))
            => /\ pc' = "log"
               /\ caller_calls' = caller_calls
               /\ http_calls' = http_calls
       /\ (pc = "log" /\ Finished(api_plan))
            => planner_history'[Len(planner_history')][2]
                  \in {api_plan, AfterRefusalPrefix(api_plan)}
       /\ (pc = "api_selector" /\ ~Finished(api_plan')) => pc' = "caller"
       /\ (pc = "caller") => caller_calls' = caller_calls + 1]_vars

\* the completion the latest Caller invocation parsed
Has(text, t) == \E i \in 1..Len(text) : text[i] = t
FirstAt(text, t) ==
    CHOOSE i \in 1..Len(text) :
        text[i] = t /\ \A j \in 1..(i - 1) : text[j] # t

\* an Operation/Input pair and no "Execution Result:"
HasActionPair(text) ==
    /\ ~Has(text, MARKER)
    /\ Has(text, OPERATION)
    /\ Has(SubSeq(text, FirstAt(text, OPERATION) + 1, Len(text)), INPUT)

\* the text after "Input:" of the pair
InputBlockOf(text) ==
    LET afterOp == SubSeq(text, FirstAt(text, OPERATION) + 1, Len(text))
    IN  SubSeq(afterOp, FirstAt(afterOp, INPUT) + 1, Len(afterOp))

\* the operation token of the pair
OperationTokenOf(text) ==
    LET afterOp == SubSeq(text, FirstAt(text, OPERATION) + 1, Len(text))
        line == SubSeq(afterOp, 1, FirstAt(afterOp, INPUT) - 1)
        word == SelectSeq(line, LAMBDA t : ~IsSpace(t))
    IN  IF Len(word) = 1 THEN word[1].s ELSE "?"

SpecVerbs == {"GET", "POST", "PUT", "DELETE", "PATCH"}

\* C12: the Action Parser accepts each of GET, POST, PUT, DELETE and PATCH
\* as the operation token and returns an action for it; for any other
\* token it fails with the unsupported-operation error.
C12_FiveVerbsAccepted ==
    (caller_calls > 0 /\ HasActionPair(caller_chain_output))
    => LET verb == OperationTokenOf(caller_chain_output)
           parsed == _get_action_and_input(caller_chain_output)
       IN  IF verb \in SpecVerbs
           THEN ~parsed.raised /\ parsed.action = verb
                   /\ caller_outcome.exc # "NotImplementedError"
           ELSE parsed.raised /\ caller_outcome.raised
                   /\ caller_outcome.exc = "NotImplementedError"

\* r is text with the white space at both ends removed
IsStripOf(r, text) ==
    \E a \in 0..Len(text), b \in 0..Len(text) :
        /\ a + b <= Len(text)
        /\ r = SubSeq(text, a + 1, Len(text) - b)
        /\ \A k \in 1..a : IsSpace(text[k])
        /\ \A k \in (Len(text) - b + 1)..Len(text) : IsSpace(text[k])
        /\ r # <<>> => (~IsSpace(r[1]) /\ ~IsSpace(r[Len(r)]))

\* r is what follows the (last) "Execution Result:" of text, stripped
IsResultOf(r, text) ==
    \E i \in 1..Len(text) :
        /\ text[i] = MARKER
        /\ \A j \in (i + 1)..Len(text) : text[j] # MARKER
        /\ IsStripOf(r, SubSeq(text, i + 1, Len(text)))

\* C13: for every completion containing "Execution Result:", whatever
\* precedes it (an Operation/Input pair included), the Action Parser
\* returns the done signal whose text is what follows the marker with the
\* white space at both ends removed; the Caller returns that text and
\* issues no request.
C13_MarkerMeansDone ==
    (caller_calls > 0 /\ Has(caller_chain_output, MARKER))
    => LET parsed == _get_action_and_input(caller_chain_output)
       IN  /\ ~parsed.raised
           /\ parsed.action = "DONE"
           /\ IsResultOf(parsed.action_input, caller_chain_output)
           /\ ~caller_outcome.raised
           /\ caller_outcome.result = parsed.action_input
           /\ caller_outcome.http = 0

C13_Witness ==
    /\ pc = "log"
    /\ Has(caller_chain_output, MARKER)
    /\ Has(SubSeq(caller_chain_output, 1,
                  FirstAt(caller_chain_output, MARKER)), OPERATION)
    /\ Has(SubSeq(caller_chain_output, 1,
                  FirstAt(caller_chain_output, MARKER)), INPUT)
    /\ execution_res = <<W("b")>>

\* the Input block from its first "{" to its last "}", empty when it has
\* no such pair
PayloadOf(text) ==
    LET block == InputBlockOf(text)
    IN  IF Has(block, LB) /\ Has(block, RB)
        THEN LET i == FirstAt(block, LB)
                 j == CHOOSE j \in 1..Len(block) :
                          block[j] = RB
                              /\ \A k \in (j + 1)..Len(block) : block[k] # RB
             IN  SubSeq(block, i, j)
        ELSE <<>>

\* C14: one Caller invocation issues at most one HTTP request: none when
\* the parser returns the done signal, exactly one when the action is a
\* supported verb with a valid JSON payload.
C14_OneRequestPerInvocation ==
    caller_calls > 0
    => /\ caller_outcome.http <= 1
       /\ http_calls <= caller_calls
       /\ Has(caller_chain_output, MARKER) => caller_outcome.http = 0
       /\ (/\ HasActionPair(caller_chain_output)
           /\ OperationTokenOf(caller_chain_output) \in SpecVerbs
           /\ json_loads(PayloadOf(caller_chain_output)).ok)
          => caller_outcome.http = 1

\* the excerpt the latest Caller invocation put in its prompt, and the
\* YAML tokens of the endpoint it documents
ExcerptOfLatest == caller_outcome.prompt.api_doc_for_caller
DumpOfLatest == endpoint_docs[ExcerptOfLatest.name].yaml
HasExcerpt == caller_calls > 0 /\ ExcerptOfLatest.name # <<>>

\* text is the header, the first k tokens of dump and a newline
IsLeadingCut(text, name, dump, k) ==
    /\ k <= Len(dump)
    /\ text = DocsHeader(name) \o SubSeq(dump, 1, k) \o <<NL>>

\* C15 as stated: the excerpt _prepare_api_docs returns has at most 1500
\* tokens whatever the size of the endpoint's documentation, and is cut
\* by dropping trailing content only.
C15_ExcerptWithinBudget ==
    HasExcerpt
    => /\ Len(ExcerptOfLatest.text) <= TokenBudget
       /\ \E k \in 0..TokenBudget :
             IsLeadingCut(ExcerptOfLatest.text, ExcerptOfLatest.name,
                          DumpOfLatest, k)

\* C15 amended: the YAML inside the excerpt is the first
\* min(1500, size) tokens of the endpoint's YAML; the excerpt is that
\* between the "== Docs for <endpoint> ==" header and a newline, so it is
\* longer than 1500 tokens by up to the header and the newline.
C15_YamlWithinBudget ==
    HasExcerpt
    => /\ IsLeadingCut(ExcerptOfLatest.text, ExcerptOfLatest.name,
                       DumpOfLatest, Min(Len(DumpOfLatest), TokenBudget))
       /\ Len(ExcerptOfLatest.text)
             <= TokenBudget + Len(DocsHeader(ExcerptOfLatest.name)) + 1

C15_Witness ==
    /\ HasExcerpt
    /\ Len(DumpOfLatest) > TokenBudget
    /\ Len(ExcerptOfLatest.text) > TokenBudget
    /\ ExcerptOfLatest.text[Len(DocsHeader(ExcerptOfLatest.name)) + 1]
          = DumpOfLatest[1]

\* C16: the response text handed to the Response Interpreter is a prefix
\* of the raw HTTP response body of at most 7500 characters, and a body of
\* at most 7500 characters is handed over unchanged.
C16_ResponseIsPrefix ==
    caller_outcome.parser_input.called
    => LET body == http_response.text
           given == caller_outcome.parser_input.json
       IN  /\ Len(given) <= ResponseBudget
           /\ Len(given) <= Len(body)
           /\ given = SubSeq(body, 1, Len(given))
           /\ Len(body) <= ResponseBudget => given = body

Last(seq) == seq[Len(seq)]

\* C17: wherever the Caller picks one endpoint out of the matcher's list
\* it picks the last entry: for the excerpt of the prompt (from the plan
\* step) and for the interpreter's documentation and path (from the
\* called URL).
C17_LastEntryPicked ==
    /\ HasExcerpt
          => ExcerptOfLatest.name = Last(get_matched_endpoint(api_plan))
    /\ caller_outcome.parser_input.called
          => caller_outcome.parser_input.api_path[2]
                = Last(get_matched_endpoint(CalledOfLatest))[2]

\* C18: for a completion with an Operation/Input pair the payload the
\* Action Parser returns is the Input block from its first "{" to its
\* last "}", commentary and code-fence marks around it dropped; when that
\* is not valid JSON (a block without braces included) the step fails
\* with the malformed-action error, no request is issued and nothing is
\* tried again.
C18_PayloadIsBraceSlice ==
    (caller_calls > 0 /\ HasActionPair(caller_chain_output)
        /\ ~_get_action_and_input(caller_chain_output).raised)
    => LET payload == _get_action_and_input(caller_chain_output).action_input
           block == InputBlockOf(caller_chain_output)
       IN  /\ (Has(block, LB) /\ Has(block, RB))
                  => payload = PayloadOf(caller_chain_output)
           /\ ~(Has(block, LB) /\ Has(block, RB))
                  => ~json_loads(payload).ok
           /\ ~json_loads(payload).ok
                  => /\ caller_outcome.raised
                     /\ caller_outcome.exc
                           = "ValueError: Could not parse action input"
                     /\ pc = "raised"
                     /\ http_calls = 0
                     /\ caller_calls = 1

C18_Witness ==
    /\ pc = "log"
    /\ HasActionPair(caller_chain_output)
    /\ Has(InputBlockOf(caller_chain_output), W("Here"))
    /\ Has(InputBlockOf(caller_chain_output), W("note"))
    /\ Has(PayloadOf(caller_chain_output), W("params"))
    /\ caller_outcome.http = 1

\* text is a method and a path without placeholders that the Spec Index
\* holds as an endpoint
IsIndexedLiteral(text) ==
    /\ text \in EndpointNames
    /\ \A i \in 1..Len(text[2].segs) : ~IsPlaceholder(text[2].segs[i])

\* C19: matching a literal method and path without placeholders against
\* a Spec Index that holds that exact pair returns that endpoint as the
\* only candidate, hence as the last one.
C19_ExactPairIsUnique ==
    (caller_outcome.parser_input.called /\ IsIndexedLiteral(CalledOfLatest))
    => get_matched_endpoint(CalledOfLatest) = <<CalledOfLatest>>

\* C20: the loop's events follow the cycle plan, select, call (skipped on
\* a refusal), record, plan.  The Selector is invoked only after the
\* planner output of its iteration and with every earlier iteration's
\* result in the history; the Caller only right after a selection that is
\* no refusal; a result is recorded only after the selection and the call
\* of its iteration; the planner is invoked again only after the record.
C20_EventsFollowTheCycle ==
    [][/\ (selector_calls' # selector_calls)
            => /\ pc = "api_selector"
               /\ selector_calls' = selector_calls + 1
               /\ planner_calls = selector_calls + 1
               /\ Len(planner_history) = selector_calls
               /\ pc' = IF Finished(api_plan') THEN "log" ELSE "caller"
       /\ (caller_calls' # caller_calls)
            => /\ pc = "caller"
               /\ caller_calls' = caller_calls + 1
               /\ ~Finished(api_plan)
               /\ Len(planner_history) = selector_calls - 1
       /\ (pc' = "log")
            => \/ selector_calls' = selector_calls + 1
               \/ caller_calls' = caller_calls + 1 /\ ~caller_outcome'.raised
       /\ (planner_history' # planner_history)
            => /\ pc = "log"
               /\ Len(planner_history') = selector_calls
               /\ planner_history'[selector_calls] = <<plan, execution_res>>
               /\ planner_calls = selector_calls
               /\ pc' = "planner"
       /\ (planner_calls' # planner_calls /\ planner_calls > 0)
            => /\ pc = "planner"
               /\ Len(planner_history) = planner_calls
               /\ selector_calls = planner_calls]_vars

C20_Witness ==
    /\ pc = "should_end"
    /\ planner_calls = 3
    /\ selector_calls = 2
    /\ caller_calls = 1
    /\ Len(planner_history) = 2
    /\ Finished(api_plan)

\* C21: the iteration and time budget is evaluated only at the head of
\* the loop, on the elapsed time sampled at the end of the previous
\* iteration (0 before the first): once an iteration has started its
\* Selector call, Caller call, history append and planner call all
\* happen, wherever the clock stands.
C21_BudgetOnlyAtLoopHead ==
    [][/\ (pc = "while")
            => pc' = IF BudgetReached THEN "return" ELSE "api_selector"
       /\ (pc = "api_selector")
            => pc' \in {"caller", "log"} /\ selector_calls' = selector_calls + 1
       /\ (pc = "caller")
            => pc' \in {"log", "raised"} /\ caller_calls' = caller_calls + 1
       /\ (pc = "log")
            => /\ pc' = "planner"
               /\ Len(planner_history') = Len(planner_history) + 1
       /\ (pc = "planner")
            => pc' = "should_end" /\ planner_calls' = planner_calls + 1
       /\ (time_elapsed' # time_elapsed \/ iterations' # iterations)
            => /\ pc = "should_end" /\ pc' = "while"
               /\ time_elapsed' = clock
               /\ iterations' = iterations + 1]_vars

\* the ceiling was passed while the iteration ran and the iteration ran on
\* to its planner call
C21_Witness ==
    /\ pc = "should_end"
    /\ max_execution_time # None
    /\ time_elapsed < max_execution_time
    /\ clock >= max_execution_time
    /\ caller_calls = iterations + 1
    /\ Len(planner_history) = iterations + 1
    /\ planner_calls = iterations + 2

\* the endpoints the plan step and the called URL of the latest
\* invocation resolve to: the matcher's most specific candidate
PlannedEndpoint == Last(get_matched_endpoint(api_plan))
CalledEndpoint == Last(get_matched_endpoint(CalledOfLatest))

\* C22: whenever the endpoint resolved from the URL the action called
\* differs from the one resolved from the plan step, the Response
\* Interpreter is given the documentation of the called one.
C22_InterpreterDocOfCalledUrl ==
    (caller_outcome.parser_input.called /\ CalledEndpoint # PlannedEndpoint)
    => /\ caller_outcome.parser_input.api_doc = endpoint_docs[CalledEndpoint]
       /\ caller_outcome.parser_input.api_doc # endpoint_docs[PlannedEndpoint]

\* the type parameter of the latest action with "s" added, from params or
\* from the URL query; <<>> when the action has none
TypeOfLatest ==
    LET data == json_loads(
                    _get_action_and_input(caller_chain_output).action_input).data
    IN  SearchType(Get(data, "params"), data["url"].atom)

\* the Caller has just returned or raised, after a 200 answer for a URL
\* and a plan step that both resolve
Answered ==
    /\ pc \in {"log", "raised"}
    /\ GotResponse /\ ~Non200
    /\ get_matched_endpoint(api_plan) # NoMatch
    /\ get_matched_endpoint(CalledOfLatest) # NoMatch

\* C23: in the spotify scenario, when the endpoint called is GET /search
\* with a type parameter t, the schema given to the interpreter holds
\* exactly the category t+"s"; when the called endpoint is not
\* GET /search or the scenario is not spotify the schema is not narrowed;
\* and the step does not raise when there is no type parameter.
C23_SearchSchemaNarrowed ==
    Answered
    => /\ (scenario = "spotify" /\ CalledEndpoint = EpSearch
              /\ TypeOfLatest # <<>>
              /\ TypeOfLatest \in InitialDocs[EpSearch].properties)
          => /\ caller_outcome.parser_input.called
             /\ caller_outcome.parser_input.api_doc.properties
                   = {TypeOfLatest}
       /\ (caller_outcome.parser_input.called
              /\ (scenario # "spotify" \/ CalledEndpoint # EpSearch))
          => \E e \in EndpointNames :
                /\ e[2] = caller_outcome.parser_input.api_path[2]
                /\ caller_outcome.parser_input.api_doc.properties
                      = InitialDocs[e].properties
       /\ TypeOfLatest = <<>> => ~caller_outcome.raised

NoBackground == <<W("No background")>>

\* C24: the background text handed to the Selector (line 170) and to the
\* Caller (line 187) is the same in every iteration: it is computed once,
\* before the loop, from the empty history, so it is "No background", and
\* no later statement assigns it, whatever results the history holds.
C24_BackgroundIsConstant ==
    pc # "planner_first" => api_selector_background = NoBackground

\* a second iteration is past its Caller call while the history holds a
\* result that a recomputed background would contain
C24_Witness ==
    /\ pc = "log" /\ selector_calls = 2 /\ caller_calls = 2
    /\ Len(planner_history) = 1
    /\ planner_history[1][2] # <<>>
    /\ _get_api_selector_background(planner_history) # NoBackground
    /\ api_selector_background = NoBackground
    /\ planner_input = planner_history

\* C25: the completion phrase is tested only on the plans produced inside
\* the loop (line 245). When the budget allows an iteration, the first
\* planning output goes to the Selector, and to the Caller unless the
\* Selector refuses, even if it already holds "Final Answer"; the run
\* returns only from the loop head on an exhausted budget or from line 245
\* on a plan of a later planner call.
C25_FirstPlanIsNeverTested ==
    [][/\ (pc = "while" /\ iterations = 0 /\ ~BudgetReached)
            => pc' = "api_selector" /\ plan' = tmp_planner_history[1]
       /\ (pc = "api_selector" /\ iterations = 0)
            => /\ plan = tmp_planner_history[1]
               /\ selector_calls' = 1
               /\ pc' = IF Finished(api_plan') THEN "log" ELSE "caller"
       /\ (pc = "caller" /\ iterations = 0) => caller_calls' = 1
       /\ (pc # "return" /\ pc' = "return")
            => \/ pc = "while" /\ BudgetReached
               \/ /\ pc = "should_end" /\ planner_calls >= 2
                  /\ Contains(plan, FinalAnswer)
                  /\ planner_input # <<>>]_vars

\* the first plan holds the phrase and has been through the Selector and
\* the Caller all the same
C25_Witness ==
    /\ pc = "log" /\ iterations = 0
    /\ planner_calls = 1 /\ selector_calls = 1 /\ caller_calls = 1
    /\ Contains(plan, FinalAnswer)
    /\ plan = tmp_planner_history[1]

\* the number of iterations whose Selector call is made and whose append
\* is not: one between line 172 and line 194, and for good after a Caller
\* that raised
OpenIterations == IF pc \in {"caller", "log", "raised"} THEN 1 ELSE 0

\* C26 as stated: with a finite max_iterations = N, in every reachable
\* state the history length equals the number of Selector invocations,
\* the number of Caller invocations is at most the history length plus
\* one and at most N, and once the run returns the number of planner
\* invocations is the history length plus one.
C26_CountersInEveryState ==
    max_iterations # None
    => /\ Len(planner_history) = selector_calls
       /\ caller_calls <= Len(planner_history) + 1
       /\ caller_calls <= max_iterations
       /\ pc \in {"return", "done"}
            => planner_calls = Len(planner_history) + 1

\* C26 amended: with a finite max_iterations = N, the number of Selector
\* invocations is the history length plus the one iteration that is past
\* its Selector call and before its append (or was ended there by an
\* exception of the Caller), so the two are equal at the loop head and
\* when the run returns; the number of Caller invocations is at most the
\* number of Selector invocations and at most N; and when the run returns
\* the number of planner invocations is the history length plus one.
C26_CountersAtBoundaries ==
    max_iterations # None
    => /\ selector_calls = Len(planner_history) + OpenIterations
       /\ caller_calls <= selector_calls
       /\ caller_calls <= Len(planner_history) + 1
       /\ caller_calls <= max_iterations
       /\ selector_calls <= max_iterations
       /\ pc \in {"return", "done"}
            => planner_calls = Len(planner_history) + 1

\* a run with a ceiling of N >= 2 has returned after N iterations that all
\* called the Caller
C26_Witness ==
    /\ max_iterations # None /\ max_iterations >= 2
    /\ pc = "done"
    /\ caller_calls = max_iterations
    /\ selector_calls = max_iterations
    /\ Len(planner_history) = max_iterations
    /\ planner_calls = max_iterations + 1

(***************************************************************************)
(* The run under the assumption that every planner, Selector, Caller and   *)
(* HTTP call returns. _call is one sequential thread: a statement that is  *)
(* left to execute is executed, which is weak fairness of the statements   *)
(* of the loop, and the run is never inside the Caller call for good.      *)
(***************************************************************************)
OrchestratorStep ==
    \/ PlannerFirst
    \/ While
    \/ ApiSelector
    \/ LogExecutionResult
    \/ PlannerNext
    \/ ShouldEnd
    \/ Return

CallerCallReturns == []<>(pc # "caller")

\* the runs of the spotify scenario: its Caller takes every path the tmdb
\* one takes and the schema narrowing of caller.py 360-376 besides
LiveInit == Init /\ scenario = "spotify"

LiveSpec ==
    /\ LiveInit /\ [][Next]_vars
    /\ WF_vars(OrchestratorStep) /\ CallerCallReturns

\* the run has ended: _call returned or an exception left it
Ended == pc \in {"done", "raised"}

\* C27: with a finite max_iterations, a run whose calls all return
\* eventually ends, by the completion phrase, by the budget or by a raised
\* error; with max_iterations and max_execution_time both unset, a run
\* ends only by a plan that holds the completion phrase or by a raised
\* error.
C27_RunsEnd ==
    /\ (max_iterations # None) => <>Ended
    /\ [](pc = "done"
            => Contains(result, FinalAnswer) \/ BudgetReached)
    /\ [](pc = "raised" => exc # "")
    /\ []((max_iterations = None /\ max_execution_time = None
             /\ pc \in {"return", "done"})
            => Contains(plan, FinalAnswer))

\* a run with an iteration ceiling alone has used it up on plans without
\* the completion phrase and has returned
C27_Witness ==
    /\ max_iterations = MaxIterations /\ max_execution_time = None
    /\ pc = "done" /\ iterations = max_iterations
    /\ selector_calls = max_iterations
    /\ ~Contains(result, FinalAnswer)

====
